---- MODULE Spec2Model ----
(***************************************************************************)
(* A model of SoG/train.py: the training loop of optimize_mesh (preview,   *)
(* forward, scaled backward, optimizer step, scaler update, clamp,         *)
(* synchronize), prepare_batch, the clamp block on its own, the            *)
(* validation/export loop of validate, and the file writes of the          *)
(* __main__ driver when it is replicated over several processes.           *)
(*                                                                         *)
(* Tensors are opaque to train.py; the model keeps a few integer channels  *)
(* per tensor, with 1.0 written as Unit: one diffuse channel, one specular *)
(* channel, two normal channels (x, z) and one light radiance value.       *)
(***************************************************************************)
EXTENDS Integers, Sequences, FiniteSets, TLC

\* ------------------------------------------------------------------ bounds
MaxIter == 2        \* len(dataloader_train): iterations of one training run
MaxOver == 1        \* how far outside its box a modelled channel may be stepped
MaxBatches == 2     \* largest len(dataset_validate) of a validate run
MaxRuns == 2        \* validate runs on the same out_dir
WorldSize == 2      \* replica processes of a data-parallel launch (WORLD_SIZE)
MaxInterval == 2    \* largest FLAGS.save_interval tried
Unit == 2           \* the grid value that stands for 1.0
CoarseIter == 1     \* FLAGS.coarse_iter of the run
MaxDim == 2         \* largest batch size and image side of a batch

\* ------------------------------------------------- configuration (FLAGS)
kd_min == <<0>>
kd_max == <<Unit>>
ks_min == <<0>>
ks_max == <<Unit>>
nrm_min == <<-Unit, 0>>
nrm_max == <<Unit, Unit>>

\* torch.cuda.amp.GradScaler(enabled=True): the defaults of the constructor
init_scale == 65536
growth_interval == 2000

\* the geometry parameter before training
InitGeometry == 0

\* ---------------------------------------------------------------- helpers
Max(a, b) == IF a >= b THEN a ELSE b
Min(a, b) == IF a <= b THEN a ELSE b
Abs(a) == IF a >= 0 THEN a ELSE -a

\* the values one grid unit around a (what one optimizer step can reach), kept
\* between lo and hi
NearVals(a, lo, hi) == { x \in {a - 1, a, a + 1} : x >= lo /\ x <= hi }

\* every tuple one step around v, channel by channel, and within over of the box [lo, hi]
RECURSIVE Near(_, _, _, _)
Near(v, lo, hi, over) ==
    IF v = <<>> THEN {<<>>}
    ELSE { <<x>> \o r :
             x \in NearVals(Head(v), Head(lo) - over, Head(hi) + over),
             r \in Near(Tail(v), Tail(lo), Tail(hi), over) }

\* squared Euclidean length of a tuple
RECURSIVE Dot(_)
Dot(v) == IF v = <<>> THEN 0 ELSE Head(v) * Head(v) + Dot(Tail(v))

\* ------------------------------------------------------------ batches
\* a tensor: its shape, its values and the device it lives on
Tensor(shape, data, device) == [shape |-> shape, data |-> data, device |-> device]
\* Tensor.cuda()
Cuda(t) == [t EXCEPT !.device = "cuda"]
\* torch.ones / torch.zeros(shape, device='cuda')
Full(shape, value) == Tensor(shape, <<"full", value>>, "cuda")
\* target[key] = value
SetItem(target, key, value) ==
    [k \in DOMAIN target \cup {key} |-> IF k = key THEN value ELSE target[k]]

\* the choices of --train_background (line 402)
BackgroundChoices == {"black", "white", "checker", "reference"}

\* lines 33-45: prepare_batch (it and coarse_iter are not used)
prepare_batch(target, background) ==
    LET moved == [k \in DOMAIN target |->
                     IF k \in {"mv", "mvp", "campos", "normal_rotate"}
                     THEN Cuda(target[k]) ELSE target[k]]
        batch_size == moved["mv"].shape[1]
        resolution == moved["resolution"]
        shape == <<batch_size, resolution[1], resolution[2], 3>>
        white == IF background = "white"
                 THEN SetItem(moved, "background", Full(shape, 1)) ELSE moved
    IN  IF background = "black"
        THEN SetItem(white, "background", Full(shape, 0)) ELSE white

\* ------------------------------------------------- material and textures
\* a texture: its data and the min_max box it was built with
Texture(data, lo, hi) == [data |-> data, min |-> lo, max |-> hi]

\* init_material: one 'kd_ks_normal' texture over the concatenated boxes, and 'bsdf'
mlp_min == kd_min \o ks_min \o nrm_min
mlp_max == kd_max \o ks_max \o nrm_max
\* ('bsdf' holds the string 'pbr': an entry without data)
init_material(data) ==
    [kd_ks_normal |-> Texture(data, mlp_min, mlp_max),
     bsdf |-> Texture(<<>>, <<>>, <<>>)]

\* a material with the keys the clamp block of lines 349-355 tests for
TextureMaterial(data) ==
    [kd |-> Texture(SubSeq(data, 1, Len(kd_min)), kd_min, kd_max),
     ks |-> Texture(SubSeq(data, Len(kd_min) + 1, Len(kd_min) + Len(ks_min)),
                    ks_min, ks_max),
     normal |-> Texture(SubSeq(data, Len(kd_min) + Len(ks_min) + 1, Len(mlp_min)),
                        nrm_min, nrm_max),
     bsdf |-> Texture(<<>>, <<>>, <<>>)]

\* Texture.clamp_(): every channel back into [min, max]
TexClamp(t) ==
    [t EXCEPT !.data = [i \in 1..Len(t.data) |-> Max(t.min[i], Min(t.max[i], t.data[i]))]]

\* a / sqrt(n) in grid units, rounded to the nearest grid value (0 <= a * a <= n)
RoundedRatio(a, n) ==
    CHOOSE q \in 0..Unit :
        /\ (2 * q - 1) * (2 * q - 1) * n <= 4 * Unit * Unit * a * a \/ q = 0
        /\ 4 * Unit * Unit * a * a < (2 * q + 1) * (2 * q + 1) * n

\* util.safe_normalize: v / sqrt(max(dot(v, v), 1e-20)); the zero vector stays zero
Normalize(v) ==
    IF Dot(v) = 0 THEN v
    ELSE [i \in 1..Len(v) |->
             IF v[i] < 0 THEN 0 - RoundedRatio(0 - v[i], Dot(v))
             ELSE RoundedRatio(v[i], Dot(v))]

\* Texture.normalize_(): the data rescaled to unit length
TexNormalize(t) == [t EXCEPT !.data = Normalize(@)]

\* light: the radiance base, the mips built from it (<<>> = never built) and the
\* model-view matrix it is expressed in (<<>> = none, world space)
Light(base, mips) == [base |-> base, mips |-> mips, mtx |-> <<>>]
\* lgt.clamp_(min=0.0)
LightClamp(l) == [l EXCEPT !.base = Max(0, @)]
\* lgt.build_mips()
BuildMips(l) == [l EXCEPT !.mips = <<l.base>>]
\* lgt.xfm(mtx)
Xfm(l, mtx) == [l EXCEPT !.mtx = mtx]

\* target['mv'] of training batch i and of validation batch b
TrainMv(i) == <<"train", i>>
ValMv(b) == <<"val", b>>

\* ------------------------------------------------------------------ state
VARIABLES
    pc,                 \* where optimize_mesh is in its loop
    it,                 \* the iteration index of enumerate(dataloader_train)
    optimize_geometry,  \* argument of optimize_mesh
    optimize_light,     \* argument of optimize_mesh
    if_pretrain,        \* local flag of the iteration
    if_normal,          \* local flag of the iteration
    geometry,           \* the geometry parameter
    opt_material,       \* the material: key -> texture (and 'bsdf')
    lgt,                \* the light
    opt_steps,          \* AdamW step counters of optimizer and optimizer_mesh
    scaler,             \* GradScaler: scale, growth tracker, inf check of this iteration
    grads,              \* gradients left by backward: "none", "finite" or "inf"
    sds_loss, img_loss, reg_loss, total_loss,   \* losses: the set of terms summed
    stepped,            \* the optimizers handed to scaler.step in this iteration
    phases,             \* the phases the current iteration has been through, in order
    clamp_log,          \* the material and light before and after each call of the clamp block
    camera_space_light, \* FLAGS.camera_space_light
    n_validate,         \* len(dataloader_validate)
    v_it,               \* cycle(dataloader_validate): the position of its iterator
    previews            \* the preview images saved so far, in order

trainVars == <<pc, it, optimize_geometry, optimize_light, if_pretrain, if_normal,
               geometry, opt_material, lgt, opt_steps, scaler, grads,
               sds_loss, img_loss, reg_loss, total_loss, stepped, phases,
               clamp_log, camera_space_light, n_validate, v_it, previews>>

previewVars == <<camera_space_light, n_validate, v_it, previews>>

VARIABLES
    val_pc,         \* where validate is: "idle", "loop", "returned" or "raised"
    val_run,        \* how many validate runs have started on this out_dir
    val_len,        \* len(dataset_validate) of the current run
    val_it,         \* the index of enumerate(dataloader_validate)
    relight,        \* whether validate was given a relight environment
    display,        \* FLAGS.display: the bsdf layers asked for
    result_dict,    \* the local result_dict of validate: bound or not, and its keys
    out_dir,        \* channel directory -> the files in it
    val_had         \* channel -> the batches of this run whose result held it

valVars == <<val_pc, val_run, val_len, val_it, relight, display, result_dict,
             out_dir, val_had>>

VARIABLES
    proc_pc,            \* process -> where it is in __main__
    local_rank,         \* process -> its FLAGS.local_rank
    proc_it,            \* process -> the iteration index of its training loop
    img_cnt,            \* process -> its img_cnt
    config,             \* the 'local_rank' entry of the config file: {} or {value}
    save_interval,      \* FLAGS.save_interval
    flag_validate,      \* FLAGS.validate
    writes              \* what was written so far: process, kind, path

parVars == <<proc_pc, local_rank, proc_it, img_cnt, config, save_interval,
             flag_validate, writes>>

VARIABLES
    train_background,   \* FLAGS.train_background
    batch_log           \* a batch as the dataloader yields it, then as prepare_batch returns it

batchVars == <<train_background, batch_log>>

vars == <<trainVars, valVars, parVars, batchVars>>

\* ------------------------------------------------------- Trainer.__init__
\* a Trainer whose self.params also took the geometry's parameters
TrainerParamsWithGeometry(opt_light) ==
    {"material", "geometry"} \cup (IF opt_light THEN {"light"} ELSE {})

\* self.params: the material's parameters, and the light's when it is optimized
TrainerParams(opt_light) ==
    {"material"} \cup (IF opt_light THEN {"light"} ELSE {})

\* self.geo_params: the geometry's parameters when geometry is optimized
TrainerGeoParams(opt_geometry) ==
    IF opt_geometry THEN {"geometry"} ELSE {}

\* the light after Trainer.__init__: mips are built once when light is not optimized
TrainerLight(l, opt_light) == IF ~opt_light THEN BuildMips(l) ELSE l

\* lines 228-231: Trainer.forward rebuilds the mips when the light is optimized,
\* and only then, with camera_space_light, moves the light to the batch's view
ForwardLight(l, opt_light, csl, mv) ==
    IF opt_light
    THEN IF csl THEN Xfm(BuildMips(l), mv) ELSE BuildMips(l)
    ELSE l

\* lines 98-100: validate_itr rebuilds the mips and, with camera_space_light,
\* moves the light to the view of the batch it renders
ValidateItrLight(l, csl, mv) ==
    IF csl THEN Xfm(BuildMips(l), mv) ELSE BuildMips(l)

\* ------------------------------------------------------------ losses
\* a loss is the set of terms summed in it; the placeholder 0 has none
ZeroLoss == {}
LossSum(a, b, c) == a \cup b \cup c

\* ------------------------------------------------------------ optimizers
\* line 334 without its test of if_pretrain
StepsOptimizerNoPretrainTest(ifn, ifp) == (ifn = FALSE)

\* line 334: the material/light optimizer is handed to scaler.step
StepsOptimizer(ifn, ifp) == (ifn = FALSE) /\ (ifp = FALSE)

\* lines 338-339 without the test of the two flags
StepsOptimizerMeshNoFlagTest(ifn, ifp, opt_geometry) == opt_geometry

\* lines 338-339: the geometry optimizer is handed to scaler.step
StepsOptimizerMesh(ifn, ifp, opt_geometry) ==
    ((ifn = TRUE) \/ (ifp = TRUE)) /\ opt_geometry

\* opt.step() called directly, without the scaler's inf check
OptimizerStepAlways(g) == TRUE

\* scaler.step(opt): opt.step() runs unless the unscaled gradients hold inf/nan
ScalerStepApplies(g) == g # "inf"

\* the light values one optimizer step away
LightNear(l) ==
    { [l EXCEPT !.base = b] : b \in NearVals(l.base, 0 - MaxOver, 1 + MaxOver) }

\* the textures one optimizer step away
TexNear(t) ==
    { [t EXCEPT !.data = w] : w \in Near(t.data, t.min, t.max, MaxOver) }

\* the materials one optimizer step away: every texture among keys may move
RECURSIVE MatNearOver(_, _)
MatNearOver(mat, keys) ==
    IF keys = {} THEN {mat}
    ELSE LET k == CHOOSE x \in keys : TRUE
         IN  { [m EXCEPT ![k] = t] :
                 m \in MatNearOver(mat, keys \ {k}), t \in TexNear(mat[k]) }

MatNear(mat) == MatNearOver(mat, DOMAIN mat)

\* optimizer.step() over the parameter groups the stepped optimizers hold
StepParams(groups) ==
    /\ geometry' \in (IF "geometry" \in groups
                        THEN NearVals(geometry, InitGeometry - MaxOver, InitGeometry + MaxOver)
                        ELSE {geometry})
    /\ opt_material' \in (IF "material" \in groups THEN MatNear(opt_material)
                                                   ELSE {opt_material})
    /\ lgt' \in (IF "light" \in groups THEN LightNear(lgt) ELSE {lgt})

\* a clamp block that normalizes the normal before it clamps it
ClampMaterialNormalizeFirst(mat) ==
    [k \in DOMAIN mat |->
        IF k = "kd" THEN TexClamp(mat[k])
        ELSE IF k = "ks" THEN TexClamp(mat[k])
        ELSE IF k = "normal" THEN TexClamp(TexNormalize(mat[k]))
        ELSE mat[k]]

\* ------------------------------------------------------- the clamp block
\* lines 349-355: clamp 'kd' and 'ks', clamp and normalize 'normal', each only
\* when the material has that key
ClampMaterial(mat) ==
    [k \in DOMAIN mat |->
        IF k = "kd" THEN TexClamp(mat[k])
        ELSE IF k = "ks" THEN TexClamp(mat[k])
        ELSE IF k = "normal" THEN TexNormalize(TexClamp(mat[k]))
        ELSE mat[k]]

\* a clamp block that clamps the light only when the light is optimized
ClampLightIfOptimized(l, opt_light) == IF opt_light THEN LightClamp(l) ELSE l

\* lines 356-357: the light is clamped to min 0 (lgt is never None here:
\* Trainer.__init__ has already called its methods)
ClampLight(l, opt_light) == LightClamp(l)

\* ------------------------------------------------------------ validate
\* the six channel directories validate makes under out_dir
Channels == {"shaded", "relight", "kd", "ks", "normal", "mask"}

\* the decimal digits of n, most significant first
RECURSIVE Digits(_)
Digits(n) == IF n < 10 THEN <<n>> ELSE Digits(n \div 10) \o <<n % 10>>

\* '%06d' % n: the digits, zero-padded on the left to six
RECURSIVE PadLeft(_, _)
PadLeft(d, width) == IF Len(d) >= width THEN d ELSE PadLeft(<<0>> \o d, width)
Pad6(n) == PadLeft(Digits(n), 6)

\* a file name that reuses index 0 for every batch
FrameNameNoIndex(i, k) == [stem |-> "val", num |-> Pad6(0), ch |-> k]

\* 'val_%06d_%s.png' % (it, k)
FrameName(i, k) == [stem |-> "val", num |-> Pad6(i), ch |-> k]

\* 'eval.gif'
GifName == [stem |-> "eval", num |-> <<>>, ch |-> "gif"]

\* string order of two digit strings
RECURSIVE LexLess(_, _)
LexLess(a, b) ==
    IF a = <<>> THEN b # <<>>
    ELSE IF b = <<>> THEN FALSE
    ELSE IF Head(a) # Head(b) THEN Head(a) < Head(b)
    ELSE LexLess(Tail(a), Tail(b))

\* string order of two file names of one channel directory: 'e' sorts before 'v'
NameLess(a, b) ==
    IF a.stem # b.stem THEN a.stem = "eval"
    ELSE LexLess(a.num, b.num)

\* sorted(os.listdir(dir)): the files of a directory in name order
RECURSIVE SortedFiles(_)
SortedFiles(files) ==
    IF files = {} THEN <<>>
    ELSE LET first == CHOOSE f \in files :
                          \A g \in files \ {f} : NameLess(f.name, g.name)
         IN  <<first>> \o SortedFiles(files \ {first})

\* a file: its name, the frames it holds (a png holds one) and the run that wrote it
File(name, frames, run) == [name |-> name, frames |-> frames, run |-> run]

\* writing a file replaces the file of that name
WriteFile(files, f) == { g \in files : g.name # f.name } \cup {f}

\* imageio.imread: the first frame of an image file
Imread(f) == Head(f.frames)

\* save_gif(dir, fps): every file of the directory, in name order, read into the
\* frames of eval.gif
save_gif(files, run) ==
    LET listed == SortedFiles(files)
        frames == [i \in 1..Len(listed) |-> Imread(listed[i])]
    IN  WriteFile(files, File(GifName, frames, run))

\* validate_itr: the keys of the result_dict it returns
ValidateItrKeys(rel, disp) ==
    {"shaded", "mask"} \cup (IF rel THEN {"relight"} ELSE {}) \cup disp

\* the image rendered for channel k of batch i in run r
Rendered(r, i, k) == [run |-> r, it |-> i, ch |-> k]

\* lines 140-165: a validate run starts on out_dir with its dataset and flags
StartValidate ==
    /\ val_pc \in {"idle", "returned", "raised"}
    /\ val_run < MaxRuns
    /\ val_run' = val_run + 1
    /\ val_len' \in 0..MaxBatches
    /\ relight' \in BOOLEAN
    /\ display' \in SUBSET {"kd", "ks", "normal"}
    /\ val_it' = 0
    /\ result_dict' = [bound |-> FALSE, keys |-> {}]
    /\ val_had' = [c \in Channels |-> 0]
    /\ val_pc' = "loop"
    /\ UNCHANGED out_dir
    /\ UNCHANGED <<trainVars, parVars, batchVars>>

\* lines 166-185: one validation batch: render it, save every channel of the result
ValidateBatch ==
    /\ val_pc = "loop"
    /\ val_it < val_len
    /\ LET keys == ValidateItrKeys(relight, display)
       IN  /\ result_dict' = [bound |-> TRUE, keys |-> keys]
           /\ out_dir' = [c \in Channels |->
                  IF c \in keys
                    THEN WriteFile(out_dir[c],
                             File(FrameName(val_it, c),
                                  <<Rendered(val_run, val_it, c)>>, val_run))
                    ELSE out_dir[c]]
           /\ val_had' = [c \in Channels |->
                  IF c \in keys THEN val_had[c] + 1 ELSE val_had[c]]
    /\ val_it' = val_it + 1
    /\ UNCHANGED <<val_pc, val_run, val_len, relight, display>>
    /\ lgt' = ValidateItrLight(lgt, camera_space_light, ValMv(val_it))
    /\ UNCHANGED <<pc, it, optimize_geometry, optimize_light, if_pretrain, if_normal,
                   geometry, opt_material, opt_steps, scaler, grads,
                   sds_loss, img_loss, reg_loss, total_loss, stepped, phases,
                   clamp_log, previewVars>>
    /\ UNCHANGED <<parVars, batchVars>>

\* lines 186-198: after the loop, an eval.gif for every channel among the keys of
\* result_dict; reading result_dict raises NameError when the loop never ran
ValidateGifs ==
    /\ val_pc = "loop"
    /\ val_it = val_len
    /\ IF ~result_dict.bound
         THEN /\ val_pc' = "raised"
              /\ UNCHANGED out_dir
         ELSE /\ val_pc' = "returned"
              /\ out_dir' = [c \in Channels |->
                     IF c \in result_dict.keys THEN save_gif(out_dir[c], val_run)
                                               ELSE out_dir[c]]
    /\ UNCHANGED <<val_run, val_len, val_it, relight, display, result_dict, val_had>>
    /\ UNCHANGED <<trainVars, parVars, batchVars>>

\* ------------------------------------------------- __main__, replicated
\* the replica processes of one launch
Procs == 1..WorldSize

\* the --local_rank argument the launcher gives each process
LaunchRank(p) == p - 1

\* a write to the file system
Written(p, kind, path, idx) == [proc |-> p, kind |-> kind, path |-> path, idx |-> idx]

\* lines 452-458: FLAGS.local_rank = 0, then every config entry overrides
RankAfterFlags(parsed, cfg) ==
    IF cfg = {} THEN 0 ELSE CHOOSE v \in cfg : TRUE

\* a preview in every iteration, whatever the interval
SaveImageEveryIteration(interval, i) == interval # 0

\* line 295: FLAGS.save_interval and (it % FLAGS.save_interval == 0)
SaveImage(interval, i) == interval # 0 /\ i % interval = 0

\* the process whose optimize_mesh the training specifications follow
Self == 1

\* lines 271-279: next(v_it) of cycle(dataloader_validate) over n >= 1 batches,
\* from iterator position pos: the next batch, or the first one of a new
\* iterator once the old one is exhausted
CycleNext(pos, n) ==
    IF pos < n THEN [batch |-> pos, pos |-> pos + 1]
    ELSE [batch |-> 0, pos |-> 1]

\* line 299: 'img_%s_%06d.png' % ("appearance_modeling", img_cnt)
PreviewName(cnt) == [stem |-> "img_appearance_modeling", num |-> Pad6(cnt), ch |-> "png"]

\* lines 389-429: parse_args
ParseArgs(p) ==
    /\ proc_pc[p] = "start"
    /\ local_rank' = [local_rank EXCEPT ![p] = LaunchRank(p)]
    /\ proc_pc' = [proc_pc EXCEPT ![p] = "flags"]
    /\ UNCHANGED <<proc_it, img_cnt, config, save_interval, flag_validate, writes>>
    /\ UNCHANGED <<trainVars, valVars, batchVars>>

\* lines 430-476: the fixed flags, the config file, os.makedirs(FLAGS.out_dir)
SetFlags(p) ==
    /\ proc_pc[p] = "flags"
    /\ local_rank' = [local_rank EXCEPT ![p] = RankAfterFlags(local_rank[p], config)]
    /\ writes' = writes \cup {Written(p, "dir", "out_dir", 0)}
    /\ proc_pc' = [proc_pc EXCEPT ![p] = "train"]
    /\ UNCHANGED <<proc_it, img_cnt, config, save_interval, flag_validate>>
    /\ UNCHANGED <<trainVars, valVars, batchVars>>

\* lines 284-360: one training iteration of a process; the preview image is
\* saved first, by the process whose FLAGS.local_rank is 0
TrainIteration(p) ==
    /\ proc_pc[p] = "train"
    /\ proc_it[p] < MaxIter
    /\ IF local_rank[p] = 0 /\ SaveImage(save_interval, proc_it[p])
         THEN /\ writes' = writes \cup
                    {Written(p, "file", "img_appearance_modeling", img_cnt[p])}
              /\ img_cnt' = [img_cnt EXCEPT ![p] = @ + 1]
         ELSE UNCHANGED <<writes, img_cnt>>
    /\ proc_it' = [proc_it EXCEPT ![p] = @ + 1]
    /\ UNCHANGED <<proc_pc, local_rank, config, save_interval, flag_validate>>
    /\ UNCHANGED <<trainVars, valVars, batchVars>>

\* lines 378, 535-540: optimize_mesh returns; validate on the process whose
\* FLAGS.local_rank is 0
MainValidate(p) ==
    /\ proc_pc[p] = "train"
    /\ proc_it[p] = MaxIter
    /\ writes' = IF flag_validate /\ local_rank[p] = 0
                   THEN writes \cup {Written(p, "file", "validate", 0)}
                   ELSE writes
    /\ proc_pc' = [proc_pc EXCEPT ![p] = "export"]
    /\ UNCHANGED <<local_rank, proc_it, img_cnt, config, save_interval, flag_validate>>
    /\ UNCHANGED <<trainVars, valVars, batchVars>>

\* lines 541-550: the mesh and the probe, on the process whose FLAGS.local_rank is 0
MainExport(p) ==
    /\ proc_pc[p] = "export"
    /\ writes' = IF local_rank[p] = 0
                   THEN writes \cup {Written(p, "dir", "dmtet_mesh", 0),
                                     Written(p, "file", "dmtet_mesh/mesh.obj", 0),
                                     Written(p, "file", "dmtet_mesh/probe.hdr", 0)}
                   ELSE writes
    /\ proc_pc' = [proc_pc EXCEPT ![p] = "exit"]
    /\ UNCHANGED <<local_rank, proc_it, img_cnt, config, save_interval, flag_validate>>
    /\ UNCHANGED <<trainVars, valVars, batchVars>>

\* ----------------------------------------------------------------- Init
\* the texture data before training
InitData == <<0, 0, 0, Unit>>

InitValidate ==
    /\ val_pc = "idle"
    /\ val_run = 0
    /\ val_len = 0
    /\ val_it = 0
    /\ relight = FALSE
    /\ display = {}
    /\ result_dict = [bound |-> FALSE, keys |-> {}]
    /\ out_dir = [c \in Channels |-> {}]
    /\ val_had = [c \in Channels |-> 0]

\* no process launched: the single-process flags of lines 398, 406, 452
\* the default of --train_background (line 402); no batch prepared yet
InitBatch ==
    /\ train_background = "black"
    /\ batch_log = <<>>

InitMain ==
    /\ proc_pc = [p \in Procs |-> "start"]
    /\ local_rank = [p \in Procs |-> 0]
    /\ proc_it = [p \in Procs |-> 0]
    /\ img_cnt = [p \in Procs |-> 0]
    /\ config = {}
    /\ save_interval = 1
    /\ flag_validate = TRUE
    /\ writes = {}

Init ==
    /\ InitValidate
    /\ InitBatch
    /\ InitMain
    /\ pc = "loop"
    /\ it = 0
    /\ optimize_geometry \in BOOLEAN
    /\ optimize_light \in BOOLEAN
    /\ if_pretrain = FALSE
    /\ if_normal = FALSE
    /\ geometry = InitGeometry
    /\ opt_material = init_material(InitData)
    /\ \E b \in (0 - MaxOver)..(1 + MaxOver) :
           lgt = TrainerLight(Light(b, <<>>), optimize_light)
    /\ opt_steps = [optimizer |-> 0, optimizer_mesh |-> 0]
    /\ scaler = [scale |-> init_scale, growth_tracker |-> 0, found_inf |-> "none"]
    /\ grads = "none"
    /\ sds_loss = ZeroLoss /\ img_loss = ZeroLoss /\ reg_loss = ZeroLoss
    /\ total_loss = ZeroLoss
    /\ stepped = {}
    /\ phases = <<>>
    /\ clamp_log = <<>>
    /\ camera_space_light = FALSE
    /\ n_validate = MaxBatches
    /\ v_it = 0
    /\ previews = <<>>

\* ------------------------------------------------------------- actions
\* lines 284-300: the next batch of dataloader_train, or the end of the loop;
\* on the process whose FLAGS.local_rank is 0 the preview of the next validation
\* batch is rendered and saved when the save interval divides the index
Loop ==
    /\ pc = "loop"
    /\ pc' = IF it < MaxIter THEN "forward" ELSE "done"
    /\ IF it < MaxIter /\ local_rank[Self] = 0 /\ SaveImage(save_interval, it)
         THEN LET nxt == CycleNext(v_it, n_validate)
              IN  /\ v_it' = nxt.pos
                  /\ lgt' = ValidateItrLight(lgt, camera_space_light, ValMv(nxt.batch))
                  /\ previews' = Append(previews,
                         [it |-> it, batch |-> nxt.batch,
                          name |-> PreviewName(img_cnt[Self])])
                  /\ img_cnt' = [img_cnt EXCEPT ![Self] = @ + 1]
         ELSE UNCHANGED <<v_it, lgt, previews, img_cnt>>
    /\ phases' = <<>>
    /\ UNCHANGED <<it, optimize_geometry, optimize_light, if_pretrain, if_normal,
                   geometry, opt_material, opt_steps, scaler, grads,
                   sds_loss, img_loss, reg_loss, total_loss, stepped>>
    /\ UNCHANGED <<proc_pc, local_rank, proc_it, config, save_interval, flag_validate,
                   writes>>
    /\ UNCHANGED <<valVars, batchVars, clamp_log, camera_space_light, n_validate>>

\* a loop that takes up the pretraining once the coarse iterations are over
PretrainFlagAfterCoarse(i) == i >= CoarseIter

\* line 303: if_pretrain of iteration i
PretrainFlag(i) == FALSE
\* line 304: if_normal of iteration i
NormalFlag(i) == FALSE

\* the training phase of iteration i: pretraining when the flag says so, else
\* coarse below FLAGS.coarse_iter and fine from there on
Phase(i, ifp) ==
    IF ifp THEN "pretrain" ELSE IF i < CoarseIter THEN "coarse" ELSE "fine"

\* lines 302-312 and Trainer.forward: the flags, the mips, the losses
Forward(ifp, ifn) ==
    /\ pc = "forward"
    /\ if_pretrain' = ifp
    /\ if_normal' = ifn
    /\ lgt' = ForwardLight(lgt, optimize_light, camera_space_light, TrainMv(it))
    /\ IF ifp = TRUE
         THEN /\ reg_loss' = {"reg"}
              /\ img_loss' = ZeroLoss
              /\ sds_loss' = ZeroLoss
         ELSE /\ sds_loss' = {"sds"}
              /\ img_loss' = {"img"}
              /\ reg_loss' = {"reg"}
    /\ stepped' = {}
    /\ pc' = "backward"
    /\ UNCHANGED <<it, optimize_geometry, optimize_light, geometry, opt_material,
                   opt_steps, scaler, grads, total_loss>>
    /\ phases' = Append(phases, "forward")
    /\ UNCHANGED <<valVars, parVars, batchVars, clamp_log, previewVars>>

\* lines 318-328: the total loss, scaled and backpropagated
Backward ==
    /\ pc = "backward"
    /\ total_loss' = LossSum(img_loss, reg_loss, sds_loss)
    /\ grads' \in {"finite", "inf"}
    /\ pc' = "step"
    /\ UNCHANGED <<it, optimize_geometry, optimize_light, if_pretrain, if_normal,
                   geometry, opt_material, lgt, opt_steps, scaler,
                   sds_loss, img_loss, reg_loss, stepped>>
    /\ phases' = Append(phases, "backward")
    /\ UNCHANGED <<valVars, parVars, batchVars, clamp_log, previewVars>>

\* lines 334-341: scaler.step and zero_grad of the selected optimizer(s)
Step ==
    /\ pc = "step"
    /\ LET selOpt == StepsOptimizer(if_normal, if_pretrain)
           selMesh == StepsOptimizerMesh(if_normal, if_pretrain, optimize_geometry)
           groups == (IF selOpt THEN TrainerParams(optimize_light) ELSE {})
                       \cup (IF selMesh THEN TrainerGeoParams(optimize_geometry) ELSE {})
       IN  /\ stepped' = (IF selOpt THEN {"optimizer"} ELSE {})
                           \cup (IF selMesh THEN {"optimizer_mesh"} ELSE {})
           /\ IF ~selOpt /\ ~selMesh
                THEN UNCHANGED <<geometry, opt_material, lgt, opt_steps, scaler, grads>>
                ELSE /\ IF ScalerStepApplies(grads)
                          THEN /\ StepParams(groups)
                               /\ opt_steps' =
                                    [optimizer |-> opt_steps.optimizer
                                                     + (IF selOpt THEN 1 ELSE 0),
                                     optimizer_mesh |-> opt_steps.optimizer_mesh
                                                     + (IF selMesh THEN 1 ELSE 0)]
                          ELSE UNCHANGED <<geometry, opt_material, lgt, opt_steps>>
                     /\ scaler' = [scaler EXCEPT !.found_inf =
                                      IF grads = "inf" THEN "inf" ELSE "finite"]
                     /\ grads' = "none"
    /\ pc' = "update"
    /\ UNCHANGED <<it, optimize_geometry, optimize_light, if_pretrain, if_normal,
                   sds_loss, img_loss, reg_loss, total_loss>>
    /\ phases' = Append(phases, "step")
    /\ UNCHANGED <<valVars, parVars, batchVars, clamp_log, previewVars>>

\* an iteration that goes on to the clamp block only when its step was applied
PhaseAfterUpdateNoClampOnSkip(found_inf) ==
    IF found_inf = "none" THEN "raised"
    ELSE IF found_inf = "inf" THEN "sync" ELSE "clamp"

\* lines 344-348: after scaler.update() the clamp block follows, unless update
\* raised because no inf check was recorded
PhaseAfterUpdate(found_inf) ==
    IF found_inf = "none" THEN "raised" ELSE "clamp"

\* line 344: scaler.update(). It halves the scale after an inf check that found
\* inf, doubles it after growth_interval clean steps in a row, and raises when no
\* optimizer was handed to scaler.step since the last update.
Update ==
    /\ pc = "update"
    /\ pc' = PhaseAfterUpdate(scaler.found_inf)
    /\ IF scaler.found_inf = "none"
         THEN scaler' = scaler
         ELSE scaler' =
                   IF scaler.found_inf = "inf"
                     THEN [scale |-> scaler.scale \div 2, growth_tracker |-> 0,
                           found_inf |-> "none"]
                     ELSE IF scaler.growth_tracker + 1 = growth_interval
                            THEN [scale |-> scaler.scale * 2, growth_tracker |-> 0,
                                  found_inf |-> "none"]
                            ELSE [scale |-> scaler.scale,
                                  growth_tracker |-> scaler.growth_tracker + 1,
                                  found_inf |-> "none"]
    /\ UNCHANGED <<it, optimize_geometry, optimize_light, if_pretrain, if_normal,
                   geometry, opt_material, lgt, opt_steps, grads,
                   sds_loss, img_loss, reg_loss, total_loss, stepped>>
    /\ phases' = IF scaler.found_inf = "none" THEN phases ELSE Append(phases, "update")
    /\ UNCHANGED <<valVars, parVars, batchVars, clamp_log, previewVars>>

\* lines 348-357: clamp trainables to their range
Clamp ==
    /\ pc = "clamp"
    /\ opt_material' = ClampMaterial(opt_material)
    /\ lgt' = ClampLight(lgt, optimize_light)
    /\ pc' = "sync"
    /\ UNCHANGED <<it, optimize_geometry, optimize_light, if_pretrain, if_normal,
                   geometry, opt_steps, scaler, grads,
                   sds_loss, img_loss, reg_loss, total_loss, stepped>>
    /\ phases' = Append(phases, "clamp")
    /\ UNCHANGED <<valVars, parVars, batchVars, clamp_log, previewVars>>

\* lines 359-360: synchronize the device; the iteration is over
Sync ==
    /\ pc = "sync"
    /\ it' = it + 1
    /\ pc' = "loop"
    /\ UNCHANGED <<optimize_geometry, optimize_light, if_pretrain, if_normal,
                   geometry, opt_material, lgt, opt_steps, scaler, grads,
                   sds_loss, img_loss, reg_loss, total_loss, stepped>>
    /\ phases' = Append(phases, "sync")
    /\ UNCHANGED <<valVars, parVars, batchVars, clamp_log, previewVars>>

\* the loop as the driver runs it: lines 303-304 set both flags to False
Next ==
    \/ Loop
    \/ Forward(PretrainFlag(it), NormalFlag(it))
    \/ Backward
    \/ Step
    \/ Update
    \/ Clamp
    \/ Sync

Spec == Init /\ [][Next]_vars

\* the loop body for every value of its two phase flags
NextFlags ==
    \/ Loop
    \/ \E ifp \in BOOLEAN, ifn \in BOOLEAN : Forward(ifp, ifn)
    \/ Backward
    \/ Step
    \/ Update
    \/ Clamp
    \/ Sync

SpecFlags == Init /\ [][NextFlags]_vars

\* validate, run any number of times on one out_dir after a training run that
\* optimized neither geometry nor light
InitVal ==
    /\ Init
    /\ ~optimize_geometry /\ ~optimize_light
    /\ lgt.base = 1

NextVal ==
    \/ StartValidate
    \/ ValidateBatch
    \/ ValidateGifs

SpecVal == InitVal /\ [][NextVal]_vars

\* __main__ run by WorldSize processes of one launch, with one command line and
\* one config file
InitPar ==
    /\ InitValidate
    /\ InitBatch
    /\ proc_pc = [p \in Procs |-> "start"]
    /\ local_rank = [p \in Procs |-> 0]
    /\ proc_it = [p \in Procs |-> 0]
    /\ img_cnt = [p \in Procs |-> 0]
    /\ config \in {{}} \cup { {r} : r \in 0..(WorldSize - 1) }
    /\ save_interval \in 0..MaxInterval
    /\ flag_validate \in BOOLEAN
    /\ writes = {}
    /\ pc = "loop" /\ it = 0
    /\ optimize_geometry = FALSE /\ optimize_light = FALSE
    /\ if_pretrain = FALSE /\ if_normal = FALSE
    /\ geometry = InitGeometry
    /\ opt_material = init_material(InitData)
    /\ lgt = TrainerLight(Light(1, <<>>), FALSE)
    /\ opt_steps = [optimizer |-> 0, optimizer_mesh |-> 0]
    /\ scaler = [scale |-> init_scale, growth_tracker |-> 0, found_inf |-> "none"]
    /\ grads = "none"
    /\ sds_loss = ZeroLoss /\ img_loss = ZeroLoss /\ reg_loss = ZeroLoss
    /\ total_loss = ZeroLoss
    /\ stepped = {}
    /\ phases = <<>>
    /\ clamp_log = <<>>
    /\ camera_space_light = FALSE
    /\ n_validate = MaxBatches
    /\ v_it = 0
    /\ previews = <<>>

NextPar ==
    \E p \in Procs :
        \/ ParseArgs(p)
        \/ SetFlags(p)
        \/ TrainIteration(p)
        \/ MainValidate(p)
        \/ MainExport(p)

SpecPar == InitPar /\ [][NextPar]_vars

\* the locals of optimize_mesh and the processes of __main__ before the loop
InitLocals ==
    /\ pc = "loop"
    /\ it = 0
    /\ if_pretrain = FALSE
    /\ if_normal = FALSE
    /\ geometry = InitGeometry
    /\ opt_material = init_material(InitData)
    /\ opt_steps = [optimizer |-> 0, optimizer_mesh |-> 0]
    /\ scaler = [scale |-> init_scale, growth_tracker |-> 0, found_inf |-> "none"]
    /\ grads = "none"
    /\ sds_loss = ZeroLoss /\ img_loss = ZeroLoss /\ reg_loss = ZeroLoss
    /\ total_loss = ZeroLoss
    /\ stepped = {}
    /\ phases = <<>>
    /\ clamp_log = <<>>
    /\ v_it = 0
    /\ previews = <<>>
    /\ proc_pc = [p \in Procs |-> "start"]
    /\ proc_it = [p \in Procs |-> 0]
    /\ img_cnt = [p \in Procs |-> 0]
    /\ flag_validate = TRUE
    /\ writes = {}

\* the training loop with the light locked or optimized, in world or in camera
\* space (a config file can set camera_space_light, lines 455-458)
InitLight ==
    /\ InitValidate
    /\ InitBatch
    /\ InitLocals
    /\ config = {}
    /\ local_rank = [p \in Procs |-> 0]
    /\ save_interval \in {0, MaxInterval}
    /\ n_validate = MaxBatches
    /\ optimize_geometry = FALSE
    /\ optimize_light \in BOOLEAN
    /\ camera_space_light \in BOOLEAN
    /\ \E b \in {0 - MaxOver, 1} :
           lgt = TrainerLight(Light(b, <<>>), optimize_light)

SpecLight == InitLight /\ [][Next]_vars

\* the training loop for every save interval, number of validation batches and
\* FLAGS.local_rank
InitPreview ==
    /\ InitValidate
    /\ InitBatch
    /\ InitLocals
    /\ \E r \in 0..(WorldSize - 1) :
           /\ config = {r}
           /\ local_rank = [p \in Procs |-> RankAfterFlags(LaunchRank(p), config)]
    /\ save_interval \in 0..MaxInterval
    /\ n_validate \in 1..MaxBatches
    /\ optimize_geometry = FALSE
    /\ optimize_light = FALSE
    /\ camera_space_light = FALSE
    /\ lgt = TrainerLight(Light(1, <<>>), FALSE)

SpecPreview == InitPreview /\ [][Next]_vars

\* prepare_batch called on a batch of the dataloader, for every accepted
\* background mode
Batch(b, h, w, m, c) ==
    [mv |-> Tensor(<<b, 4, 4>>, <<"mv", m>>, "cpu"),
     mvp |-> Tensor(<<b, 4, 4>>, <<"mvp", m>>, "cpu"),
     campos |-> Tensor(<<b, 3>>, <<"campos", c>>, "cpu"),
     normal_rotate |-> Tensor(<<b, 4, 4>>, <<"normal_rotate", c>>, "cpu"),
     resolution |-> <<h, w>>]

InitPrepare ==
    /\ Init
    /\ ~optimize_geometry /\ ~optimize_light
    /\ lgt.base = 1

LoadBatch ==
    /\ batch_log = <<>>
    /\ \E b \in 1..MaxDim, h \in 1..MaxDim, w \in 1..MaxDim, m \in 0..1, c \in 0..1 :
           batch_log' = <<Batch(b, h, w, m, c)>>
    /\ \E bg \in BackgroundChoices : train_background' = bg
    /\ UNCHANGED <<trainVars, valVars, parVars>>

PrepareBatch ==
    /\ Len(batch_log) = 1
    /\ batch_log' = Append(batch_log, prepare_batch(batch_log[1], train_background))
    /\ UNCHANGED <<trainVars, valVars, parVars, train_background>>

NextPrepare ==
    \/ LoadBatch
    \/ PrepareBatch

SpecPrepare == InitPrepare /\ [][NextPrepare]_vars

\* the clamp block of lines 348-357 called twice on a material and a light whose
\* values lie up to MaxOver outside their boxes
RECURSIVE Around(_, _)
Around(lo, hi) ==
    IF lo = <<>> THEN {<<>>}
    ELSE { <<x>> \o r : x \in (Head(lo) - MaxOver)..(Head(hi) + MaxOver),
                        r \in Around(Tail(lo), Tail(hi)) }

InitClamp ==
    /\ InitValidate
    /\ InitBatch
    /\ InitMain
    /\ pc = "clamp"
    /\ it = 0
    /\ optimize_geometry = FALSE
    /\ optimize_light \in BOOLEAN
    /\ if_pretrain = FALSE
    /\ if_normal = FALSE
    /\ geometry = InitGeometry
    /\ \E data \in Around(mlp_min, mlp_max) :
           opt_material \in {init_material(data), TextureMaterial(data)}
    /\ \E b \in (0 - MaxOver)..(1 + MaxOver) : lgt = BuildMips(Light(b, <<>>))
    /\ opt_steps = [optimizer |-> 0, optimizer_mesh |-> 0]
    /\ scaler = [scale |-> init_scale, growth_tracker |-> 0, found_inf |-> "none"]
    /\ grads = "none"
    /\ sds_loss = ZeroLoss /\ img_loss = ZeroLoss /\ reg_loss = ZeroLoss
    /\ total_loss = ZeroLoss
    /\ stepped = {}
    /\ phases = <<>>
    /\ clamp_log = <<>>
    /\ camera_space_light = FALSE
    /\ n_validate = MaxBatches
    /\ v_it = 0
    /\ previews = <<>>

ClampCall ==
    /\ pc = "clamp"
    /\ Len(phases) < 2
    /\ opt_material' = ClampMaterial(opt_material)
    /\ lgt' = ClampLight(lgt, optimize_light)
    /\ phases' = Append(phases, "clamp")
    /\ clamp_log' = (IF clamp_log = <<>> THEN << <<opt_material, lgt>> >> ELSE clamp_log)
                       \o << <<opt_material', lgt'>> >>
    /\ UNCHANGED <<pc, it, optimize_geometry, optimize_light, if_pretrain, if_normal,
                   geometry, opt_steps, scaler, grads,
                   sds_loss, img_loss, reg_loss, total_loss, stepped>>
    /\ UNCHANGED <<valVars, parVars, batchVars, previewVars>>

NextClamp == ClampCall

SpecClamp == InitClamp /\ [][NextClamp]_vars

\* ------------------------------------------------------------------ claims
\* the phases of an iteration in which the flags and losses of Forward are current
AfterForward == {"backward", "step", "update", "clamp", "sync", "raised"}

\* C1: in every iteration at most one of the two optimizers is stepped: the
\* geometry optimizer only when (if_pretrain or if_normal) and optimize_geometry,
\* the material/light optimizer only when neither flag holds.
C1_AtMostOneOptimizerStepped ==
    pc \in AfterForward =>
        /\ Cardinality(stepped) <= 1
        /\ "optimizer_mesh" \in stepped =>
               (if_pretrain \/ if_normal) /\ optimize_geometry
        /\ "optimizer" \in stepped => ~if_pretrain /\ ~if_normal

C1_Witness ==
    /\ pc = "update"
    /\ stepped = {"optimizer_mesh"}
    /\ if_normal /\ ~if_pretrain
    /\ opt_steps.optimizer_mesh = 1

\* C2: in a pretrain iteration the image loss and the diffusion loss are the zero
\* placeholder, the total loss is the regularization loss, and the optimizer step
\* of the iteration changes no material or light parameter.
C2_PretrainOnlyRegLossAndGeometry ==
    /\ [](pc \in AfterForward /\ if_pretrain =>
              img_loss = ZeroLoss /\ sds_loss = ZeroLoss)
    /\ [](pc \in (AfterForward \ {"backward"}) /\ if_pretrain =>
              total_loss = reg_loss)
    /\ [][pc = "step" /\ if_pretrain =>
              /\ opt_material' = opt_material
              /\ lgt' = lgt
              /\ opt_steps'.optimizer = opt_steps.optimizer]_vars

C2_Witness ==
    /\ pc = "update"
    /\ if_pretrain
    /\ stepped = {"optimizer_mesh"}
    /\ geometry # InitGeometry
    /\ total_loss = {"reg"}

\* the diffuse, specular and normal values of a material, whichever keys hold them
KdOf(mat) == IF "kd" \in DOMAIN mat THEN mat["kd"].data
             ELSE SubSeq(mat["kd_ks_normal"].data, 1, Len(kd_min))
KsOf(mat) == IF "ks" \in DOMAIN mat THEN mat["ks"].data
             ELSE SubSeq(mat["kd_ks_normal"].data, Len(kd_min) + 1,
                         Len(kd_min) + Len(ks_min))
NormalOf(mat) == IF "normal" \in DOMAIN mat THEN mat["normal"].data
                 ELSE SubSeq(mat["kd_ks_normal"].data, Len(kd_min) + Len(ks_min) + 1,
                             Len(mlp_min))
InBox(v, lo, hi) == \A i \in 1..Len(v) : lo[i] <= v[i] /\ v[i] <= hi[i]

\* C3: at the end of every non-pretrain iteration, after the clamp block, every
\* diffuse, specular and normal value of the material is inside its [min, max]
\* box and the normal has unit length.
C3_MaterialInBoxAfterClamp ==
    pc = "sync" /\ ~if_pretrain =>
        /\ InBox(KdOf(opt_material), kd_min, kd_max)
        /\ InBox(KsOf(opt_material), ks_min, ks_max)
        /\ InBox(NormalOf(opt_material), nrm_min, nrm_max)
        /\ Dot(NormalOf(opt_material)) # 0
        /\ Normalize(NormalOf(opt_material)) = NormalOf(opt_material)

\* C4: after the clamp at the end of every iteration every light radiance value
\* is non-negative, whichever optimizer stepped and whether or not the light is
\* optimized.
C4_LightNonNegativeAfterClamp ==
    pc = "sync" => lgt.base >= 0

\* the light was built negative (its mips still show it) and is clamped now
C4_Witness ==
    /\ pc = "sync"
    /\ ~optimize_light
    /\ lgt.mips = <<-1>>
    /\ lgt.base = 0

\* C5: with optimize_geometry=False and optimize_light=False the geometry
\* parameters keep their initial values for the whole run, while every iteration
\* hands the material optimizer, and only it, to the step, which moves no light.
C5_GeometryFrozenMaterialStepped ==
    /\ [](~optimize_geometry /\ ~optimize_light =>
              geometry = InitGeometry /\ opt_steps.optimizer_mesh = 0)
    /\ [][~optimize_geometry /\ ~optimize_light /\ pc = "step" =>
              /\ stepped' = {"optimizer"}
              /\ lgt' = lgt
              /\ (grads = "finite" =>
                      opt_steps'.optimizer = opt_steps.optimizer + 1)]_vars

C5_Witness ==
    /\ pc = "done"
    /\ ~optimize_geometry /\ ~optimize_light
    /\ opt_steps.optimizer = MaxIter
    /\ opt_material # init_material(InitData)
    /\ geometry = InitGeometry

\* C10: when the gradients are non-finite the selected optimizer's step is skipped
\* without raising (no parameter and no step counter changes, the loop goes on)
\* and the next update lowers the loss scale; with finite gradients the selected
\* optimizer's step is applied.
C10_NonFiniteStepSkipped ==
    /\ [][pc = "step" /\ grads = "inf" =>
              /\ geometry' = geometry
              /\ opt_material' = opt_material
              /\ lgt' = lgt
              /\ opt_steps' = opt_steps
              /\ pc' = "update"]_vars
    /\ [][pc = "update" /\ scaler.found_inf = "inf" =>
              /\ scaler'.scale < scaler.scale
              /\ pc' = "clamp"]_vars
    /\ [][pc = "step" /\ grads = "finite" =>
              /\ stepped' = {"optimizer"}
              /\ opt_steps'.optimizer = opt_steps.optimizer + 1
              /\ DOMAIN opt_material' = DOMAIN opt_material
              /\ \A k \in DOMAIN opt_material :
                     /\ opt_material'[k].min = opt_material[k].min
                     /\ opt_material'[k].max = opt_material[k].max
                     /\ Len(opt_material'[k].data) = Len(opt_material[k].data)
                     /\ \A i \in 1..Len(opt_material[k].data) :
                            opt_material'[k].data[i] \in
                                NearVals(opt_material[k].data[i],
                                         opt_material[k].min[i] - MaxOver,
                                         opt_material[k].max[i] + MaxOver)]_vars

\* the second iteration runs at a lower scale after a skipped first step
C10_Witness ==
    /\ pc = "backward"
    /\ it = 1
    /\ scaler.scale < init_scale
    /\ opt_steps.optimizer = 0
    /\ opt_material = init_material(InitData)

\* the val_NNNNNN_<channel>.png frames of a channel directory
FramesIn(c) == { f \in out_dir[c] : f.name.stem = "val" /\ f.name.ch = c }

\* the eval.gif of a channel directory, if this run wrote one
GifOfRun(c) == { f \in out_dir[c] : f.name = GifName /\ f.run = val_run }

\* C6: after validate has run into an initially empty output directory, every
\* channel directory holds as many val_NNNNNN_<channel>.png frames as there were
\* validation batches whose result held that channel, one for each batch index.
C6_FramesPerChannel ==
    val_pc = "returned" /\ val_run = 1 =>
        \A c \in Channels :
            /\ Cardinality(FramesIn(c)) = val_had[c]
            /\ val_had[c] > 0 =>
                   { f.name : f \in FramesIn(c) }
                       = { FrameName(i, c) : i \in 0..(val_len - 1) }

C6_Witness ==
    /\ val_pc = "returned" /\ val_run = 1
    /\ val_len = MaxBatches
    /\ Cardinality(FramesIn("shaded")) = MaxBatches
    /\ Cardinality(FramesIn("kd")) = MaxBatches
    /\ Cardinality(FramesIn("relight")) = 0

\* C7: after every validate run, the eval.gif of every channel that received
\* frames in the run holds exactly the frames persisted for that channel in the
\* run, in batch-index order.
C7_GifIsThisRunsFrames ==
    val_pc = "returned" =>
        \A c \in Channels :
            val_had[c] > 0 =>
                \E g \in GifOfRun(c) :
                    g.frames = [i \in 1..val_had[c] |-> Rendered(val_run, i - 1, c)]

\* C8: a channel that got no frame in a validate run gets no animation from that
\* run, a channel that got frames gets one, and validate returns without
\* raising, also when the run had no validation batch at all.
C8_ZeroFramesOmitted ==
    /\ val_pc # "raised"
    /\ val_pc = "returned" =>
           \A c \in Channels :
               /\ val_had[c] = 0 => GifOfRun(c) = {}
               /\ val_had[c] > 0 => GifOfRun(c) # {}

\* the files written so far (directories made with exist_ok are left out)
FileWrites == { w \in writes : w.kind = "file" }

\* C9: in a data-parallel launch only the process of rank zero writes files
\* (previews, validation output, mesh and probe), and no two processes write the
\* same output path.
C9_OnlyRankZeroWrites ==
    /\ \A w \in FileWrites : LaunchRank(w.proc) = 0
    /\ \A w1 \in FileWrites, w2 \in FileWrites :
           (w1.path = w2.path /\ w1.idx = w2.idx) => w1.proc = w2.proc

\* the phases of an iteration, in the order of the loop body
PhaseOrder == <<"forward", "backward", "step", "update", "clamp", "sync">>

C12_ClampIdempotent ==
    Len(clamp_log) = 3 => clamp_log[3] = clamp_log[2]

\* two calls on a material with a 'normal' texture and a negative light, the
\* first of which changed the diffuse value, the normal and the light
C12_Witness ==
    /\ Len(clamp_log) = 3
    /\ "normal" \in DOMAIN clamp_log[1][1]
    /\ KdOf(clamp_log[2][1]) # KdOf(clamp_log[1][1])
    /\ NormalOf(clamp_log[2][1]) # NormalOf(clamp_log[1][1])
    /\ NormalOf(clamp_log[1][1])[2] < 0
    /\ clamp_log[1][2].base < 0

\* the order of the phases
PhaseRank(ph) == IF ph = "pretrain" THEN 0 ELSE IF ph = "coarse" THEN 1 ELSE 2

\* C13: every iteration is in one phase of pretrain, coarse, fine, given by its
\* index and the coarse-iteration threshold, and the phase of an iteration is
\* never an earlier one than the phase of the iteration before it.
C13_PhaseNeverRegresses ==
    [][pc = "forward" /\ pc' = "backward" =>
          /\ Phase(it, if_pretrain') \in {"pretrain", "coarse", "fine"}
          /\ it > 0 => PhaseRank(Phase(it, if_pretrain')) >=
                          PhaseRank(Phase(it - 1, if_pretrain))]_vars

\* the first fine iteration, after a coarse one
C13_Witness ==
    /\ pc = "backward"
    /\ it > 0
    /\ Phase(it, if_pretrain) = "fine"
    /\ Phase(it - 1, FALSE) = "coarse"

\* C14: for every accepted background mode prepare_batch returns the batch with
\* a 'background' of shape (batch, height, width, 3), all ones for 'white' and
\* all zeros for 'black', with mv, mvp, campos and normal_rotate holding the
\* values they had and the resolution unchanged.
C14_BackgroundAttached ==
    Len(batch_log) = 2 =>
        LET target == batch_log[1]
            prepared == batch_log[2]
        IN  /\ "background" \in DOMAIN prepared
            /\ prepared["background"].shape =
                   <<target["mv"].shape[1], target["resolution"][1],
                     target["resolution"][2], 3>>
            /\ train_background = "white" => prepared["background"].data = <<"full", 1>>
            /\ train_background = "black" => prepared["background"].data = <<"full", 0>>
            /\ \A k \in {"mv", "mvp", "campos", "normal_rotate"} :
                   prepared[k].data = target[k].data /\ prepared[k].shape = target[k].shape
            /\ prepared["resolution"] = target["resolution"]

\* C15: when an iteration renders, the mips have been rebuilt if the light is
\* optimized or camera-space light is configured, the light is expressed in the
\* view of this iteration's batch if camera-space light is configured, and with
\* a locked light the mips have been built at least once.
C15_LightReadyForRender ==
    pc = "backward" /\ ~if_pretrain =>
        /\ optimize_light \/ camera_space_light => lgt.mips = <<lgt.base>>
        /\ camera_space_light => lgt.mtx = TrainMv(it)
        /\ ~optimize_light => lgt.mips # <<>>

\* the iterations that have got past the preview of lines 294-300
Started == { i \in 0..(MaxIter - 1) : i < it \/ (i = it /\ pc # "loop") }

\* C16: on the process of local rank 0, with a save interval S > 0 and N >= 1
\* validation batches, the previews saved are those of the iterations S divides,
\* each saved before its iteration's forward; preview k (from 0) shows validation
\* batch k mod N and is named img_appearance_modeling_<k>; with S = 0 there is
\* never a preview.
C16_PreviewSchedule ==
    local_rank[Self] = 0 =>
        /\ save_interval = 0 => previews = <<>>
        /\ save_interval > 0 =>
               /\ { previews[k].it : k \in 1..Len(previews) } =
                      { i \in Started : i % save_interval = 0 }
               /\ \A k \in 1..Len(previews) :
                      /\ previews[k].batch = (k - 1) % n_validate
                      /\ previews[k].name = PreviewName(k - 1)
                      /\ k > 1 => previews[k - 1].it < previews[k].it

\* the second preview, of the first validation batch again, before the forward
\* of the second iteration
C16_Witness ==
    /\ local_rank[Self] = 0
    /\ pc = "forward"
    /\ it = 1
    /\ n_validate = 1
    /\ Len(previews) = 2
    /\ previews[2].batch = 0
    /\ previews[2].name = PreviewName(1)

====
